---- MODULE Spec2Model ----
(***************************************************************************)
(* Model of the notebook "Week1/6. Save And Load Models.ipynb".            *)
(*                                                                         *)
(* The notebook is a straight-line program: its code cells run top to      *)
(* bottom against one global `model`, one global `cp_callback`, and the    *)
(* files below checkpoints/ and my_model.h5.  Every statement of a cell is *)
(* one action; a fit() call is a loop of, per epoch, one action that trains *)
(* and one that validates and runs the callback's on_epoch_end.            *)
(*                                                                         *)
(* The trainer is opaque.  ModelState is abstracted to a number 0..MaxW;   *)
(* the loss evaluate()/validation reports for it is LossTable, the values  *)
(* the notebook printed.  The two things the notebook cannot predict are   *)
(* inputs: the random initial weights of each create_model(), and what a   *)
(* fit() does to the weights (a per-run seed drawn when fit() starts).     *)
(***************************************************************************)
EXTENDS Integers, Sequences, FiniteSets, TLC

\* ---------------------------------------------------------------- bounds
MaxW == 5        \* ModelState values are 0..MaxW
MaxSeed == 2     \* training seeds are 0..MaxSeed

\* ------------------------------------------------------ program constants
DenseUnits == 512      \* keras.layers.Dense(512, ...)
DropoutPercent == 20   \* keras.layers.Dropout(0.2)
OutputUnits == 10      \* keras.layers.Dense(10, ...)
Epochs1 == 10          \* training_1: model.fit(epochs=10)
Epochs2 == 50          \* training_2: model.fit(epochs=50)
Period2 == 5           \* training_2: ModelCheckpoint(period=5)
Epochs3 == 5           \* archive section: model.fit(epochs=5)
Inf == 1000            \* np.Inf, the callback's initial best ("improved from inf")
Unset == 0 - 1         \* a notebook variable not assigned yet

Weights == 0 .. MaxW
Seeds == 0 .. MaxSeed

\* val_loss / evaluate loss (in hundredths) of each ModelState: the six
\* values of the training_1 log, 0.70 0.52 0.46 0.43 0.42 0.43.
LossTable == <<70, 52, 46, 43, 42, 43>>

\* The loss of ModelState w on the 1000 test images.
Loss(w) == LossTable[(w % Len(LossTable)) + 1]

\* model.evaluate(test_images, test_labels): a function of the weights only.
evaluate(m) == Loss(m.weights)

\* ----------------------------------------------------------------- paths
\* 'cp-{epoch:04d}.ckpt'.format(epoch=e): the four decimal digits of e.
Format04d(e) == << (e \div 1000) % 10, (e \div 100) % 10, (e \div 10) % 10, e % 10 >>

ckpt_dir_for_t1 == "checkpoints/training_1"
ckpt_path_for_t1 == [dir |-> ckpt_dir_for_t1, name |-> "cp.ckpt", tag |-> << >>]
ckpt_dir_for_t2 == "checkpoints/training_2"
ckpt_path_for_t2(e) == [dir |-> ckpt_dir_for_t2, name |-> "cp-{epoch:04d}.ckpt", tag |-> Format04d(e)]
manual_dir == "checkpoints/manual_checkpoint"
manual_path == [dir |-> manual_dir, name |-> "cur_weights", tag |-> << >>]
h5_path == [dir |-> ".", name |-> "my_model.h5", tag |-> << >>]
NoPath == [dir |-> "", name |-> "", tag |-> << >>]

\* ---------------------------------------------------------------- models
NoOptimizer == [kind |-> "none", iterations |-> 0]
NoConfig == << >>
\* Sequential([Dense(512, relu), Dropout(0.2), Dense(10, softmax)])
SequentialConfig == << <<"Dense", DenseUnits>>, <<"Dropout", DropoutPercent>>, <<"Dense", OutputUnits>> >>
NoModel == [config |-> NoConfig, weights |-> 0, optimizer |-> NoOptimizer]

\* create_model(): the fixed architecture, randomly initialised weights w0,
\* compiled with a fresh optimizer of the kind given to compile().
create_model(w0, opt) ==
    [config |-> SequentialConfig, weights |-> w0,
     optimizer |-> [kind |-> opt, iterations |-> 0]]

\* One epoch of fit(): the weights move by the run's seed, the optimizer
\* takes its steps.
TrainEpoch(m, s) ==
    [m EXCEPT !.weights = (m.weights + s) % (MaxW + 1),
              !.optimizer.iterations = m.optimizer.iterations + 1]

\* ------------------------------------------------------------- the files
\* What a weights-only checkpoint holds: "only the trained weights".
CkptOf(m) ==
    [format |-> "ckpt", config |-> NoConfig, weights |-> m.weights, optimizer |-> NoOptimizer]

\* The file system after content is written under path (replacing what was there).
WriteFile(fs, path, content) == (path :> content) @@ fs

\* A save that returns before anything reached the disk.
save_weights_pending(fs, path, m) == fs

\* model.save_weights(path): the checkpoint files ...
save_weights(fs, path, m) == WriteFile(fs, path, CkptOf(m))

\* A state file that keeps naming the first checkpoint of the directory.
update_checkpoint_state_keep(cs, path) ==
    IF cs[path.dir] = NoPath THEN [cs EXCEPT ![path.dir] = path] ELSE cs

\* ... and the directory's `checkpoint` state file, which names the path
\* written last (the file `checkpoint` of both directory listings).
update_checkpoint_state(cs, path) == [cs EXCEPT ![path.dir] = path]

\* A restore that copies nothing.
load_weights_stale(m, fs, path) == m

\* A restore that also takes the optimizer slot of the file.
load_weights_and_optimizer(m, fs, path) ==
    [m EXCEPT !.weights = fs[path].weights, !.optimizer = fs[path].optimizer]

\* A restore that adds the stored weights to the model's own.
load_weights_add(m, fs, path) ==
    [m EXCEPT !.weights = (m.weights + fs[path].weights) % (MaxW + 1)]

\* model.load_weights(path): the stored weights replace the model's own.
load_weights(m, fs, path) == [m EXCEPT !.weights = fs[path].weights]

\* tf.train.latest_checkpoint(dir): the path the state file names (NoPath: None).
latest_checkpoint(cs, dir) == cs[dir]

\* An archive format that takes every optimizer.
SerializableAny(opt) == opt.kind # "none"

\* "it is not able to save TensorFlow optimizers (from tf.train)".
Serializable(opt) == opt.kind \notin {"tf.train", "none"}

\* An archive written without the optimizer (include_optimizer=False).
ArchiveOfNoOptimizer(m) ==
    [format |-> "h5", config |-> m.config, weights |-> m.weights, optimizer |-> NoOptimizer]

\* model.save('my_model.h5'): weights, configuration and optimizer in one file.
ArchiveOf(m) ==
    [format |-> "h5", config |-> m.config, weights |-> m.weights,
     optimizer |-> IF Serializable(m.optimizer) THEN m.optimizer ELSE NoOptimizer]

\* tf.keras.models.load_model(path): a model built from the file alone.
load_model(fs, path) ==
    [config |-> fs[path].config, weights |-> fs[path].weights,
     optimizer |-> fs[path].optimizer]

\* ---------------------------------------------------------- the callback
NoCallback ==
    [templated |-> FALSE, save_best_only |-> FALSE, period |-> 1,
     best |-> Inf, epochs_since_last_save |-> 0]

\* ModelCheckpoint(filepath=ckpt_path_for_t1, save_weights_only=True,
\*                 save_best_only=True, verbose=1)
ModelCheckpoint1 ==
    [templated |-> FALSE, save_best_only |-> TRUE, period |-> 1,
     best |-> Inf, epochs_since_last_save |-> 0]

\* ModelCheckpoint(filepath=ckpt_path_for_t2, verbose=1,
\*                 save_weights_only=True, period=5)
ModelCheckpoint2 ==
    [templated |-> TRUE, save_best_only |-> FALSE, period |-> Period2,
     best |-> Inf, epochs_since_last_save |-> 0]

\* A path formatted with the 0-based epoch index.
get_file_path_zero_based(cb, e) ==
    IF cb.templated THEN ckpt_path_for_t2(e - 1) ELSE ckpt_path_for_t1

\* The path of the checkpoint of epoch e (1-based, as the log prints it).
get_file_path(cb, e) == IF cb.templated THEN ckpt_path_for_t2(e) ELSE ckpt_path_for_t1

\* A monitor that takes every metric for an improvement.
monitor_op_always(current, best) == TRUE

\* A monitor that also takes an equal metric for an improvement.
monitor_op_le(current, best) == current <= best

\* monitor val_loss, mode auto: "improved" is strictly lower.
monitor_op(current, best) == current < best

NoLog == [epoch |-> 0, msg |-> "", from |-> 0, to |-> 0]

\* The record of one checkpoint write: where, at which epoch (0: a manual
\* save_weights), and the ModelState written.
WriteEvent(path, e, m) == [path |-> path, epoch |-> e, weights |-> m.weights]

\* The callback writes the model's weights under path.
CallbackSave(st, path, e, m) ==
    [st EXCEPT !.files = save_weights(st.files, path, m),
               !.ckptState = update_checkpoint_state(st.ckptState, path),
               !.writes = Append(st.writes, WriteEvent(path, e, m))]

\* ModelCheckpoint.on_epoch_end after epoch e (1-based) with val_loss val.
\* st holds the callback and everything it can touch.
on_epoch_end(st, e, val, m) ==
    LET since == st.cb.epochs_since_last_save + 1
        path == get_file_path(st.cb, e)
        st0 == [st EXCEPT !.cb.epochs_since_last_save = 0]
    IN  IF since >= st.cb.period
        THEN IF st.cb.save_best_only
             THEN IF monitor_op(val, st.cb.best)
                  THEN [CallbackSave(st0, path, e, m) EXCEPT
                            !.cb.best = val,
                            !.log = [epoch |-> e, msg |-> "improved", from |-> st.cb.best, to |-> val]]
                  ELSE [st0 EXCEPT
                            !.log = [epoch |-> e, msg |-> "did not improve", from |-> st.cb.best, to |-> val]]
             ELSE [CallbackSave(st0, path, e, m) EXCEPT
                       !.log = [epoch |-> e, msg |-> "saving", from |-> 0, to |-> 0]]
        ELSE [st EXCEPT !.cb.epochs_since_last_save = since]

VARIABLES pc, model, new_model, files, ckptState, cp_callback, epoch, seed,
          latest, loss, log, writes, optimizerArg

vars == <<pc, model, new_model, files, ckptState, cp_callback, epoch, seed,
          latest, loss, log, writes, optimizerArg>>

\* ------------------------------------------------------------------ Init
\* The state after cell 4: model = create_model(), nothing on disk yet.
InitWith(opts) ==
    /\ pc = "c5"
    /\ optimizerArg \in opts
    /\ \E w0 \in Weights : model = create_model(w0, optimizerArg)
    /\ new_model = NoModel
    /\ files = << >>
    /\ ckptState = [d \in {ckpt_dir_for_t1, ckpt_dir_for_t2, manual_dir} |-> NoPath]
    /\ cp_callback = NoCallback
    /\ epoch = 0
    /\ seed = 0
    /\ latest = NoPath
    /\ loss = Unset
    /\ log = NoLog
    /\ writes = << >>

\* model.compile(optimizer='adam', ...)
Init == InitWith({"adam"})

\* The notebook's closing note: create_model compiled with a TensorFlow
\* optimizer (from tf.train) instead.
InitOpt == InitWith({"adam", "tf.train"})

\* --------------------------------------------------- statements of a cell
\* cp_callback = tf.keras.callbacks.ModelCheckpoint(...)
NewCallback(at, to, cb) ==
    /\ pc = at
    /\ cp_callback' = cb
    /\ pc' = to
    /\ UNCHANGED <<model, new_model, files, ckptState, epoch, seed, latest, loss,
                   log, writes, optimizerArg>>

\* model = create_model()
CreateModel(at, to) ==
    /\ pc = at
    /\ \E w0 \in Weights : model' = create_model(w0, optimizerArg)
    /\ pc' = to
    /\ UNCHANGED <<new_model, files, ckptState, cp_callback, epoch, seed, latest,
                   loss, log, writes, optimizerArg>>

\* loss, acc = model.evaluate(test_images, test_labels)
Evaluate(at, to) ==
    /\ pc = at
    /\ loss' = evaluate(model)
    /\ pc' = to
    /\ UNCHANGED <<model, new_model, files, ckptState, cp_callback, epoch, seed,
                   latest, log, writes, optimizerArg>>

\* model.save_weights(path)
SaveWeights(at, to, path) ==
    /\ pc = at
    /\ files' = save_weights(files, path, model)
    /\ ckptState' = update_checkpoint_state(ckptState, path)
    /\ writes' = Append(writes, WriteEvent(path, 0, model))
    /\ pc' = to
    /\ UNCHANGED <<model, new_model, cp_callback, epoch, seed, latest, loss, log,
                   optimizerArg>>

\* model.load_weights(path).  A path with nothing under it makes the call
\* raise, and the run stops there.
LoadWeights(at, to, path) ==
    /\ pc = at
    /\ IF path \in DOMAIN files
       THEN /\ model' = load_weights(model, files, path)
            /\ pc' = to
       ELSE /\ model' = model
            /\ pc' = "raised"
    /\ UNCHANGED <<new_model, files, ckptState, cp_callback, epoch, seed, latest,
                   loss, log, writes, optimizerArg>>

\* latest = tf.train.latest_checkpoint(dir)
LatestCheckpoint(at, to, dir) ==
    /\ pc = at
    /\ latest' = latest_checkpoint(ckptState, dir)
    /\ pc' = to
    /\ UNCHANGED <<model, new_model, files, ckptState, cp_callback, epoch, seed,
                   loss, log, writes, optimizerArg>>

\* model.fit(...) starts: this run's shuffling and dropout are drawn.
FitBegin(at, to) ==
    /\ pc = at
    /\ seed' \in Seeds
    /\ epoch' = 0
    /\ pc' = to
    /\ UNCHANGED <<model, new_model, files, ckptState, cp_callback, latest, loss,
                   log, writes, optimizerArg>>

\* model.fit(..., validation_data=..., callbacks=[cp_callback]) trains one
\* epoch; the callbacks of that epoch are still to run.
FitTrain(at, cbAt, epochs) ==
    /\ pc = at
    /\ epoch < epochs
    /\ model' = TrainEpoch(model, seed)
    /\ pc' = cbAt
    /\ UNCHANGED <<new_model, files, ckptState, cp_callback, epoch, seed, latest,
                   loss, log, writes, optimizerArg>>

\* The end of that epoch: val_loss is computed on the test set and
\* cp_callback runs, synchronously, before fit goes on to the next epoch.
FitCallback(cbAt, at) ==
    /\ pc = cbAt
    /\ LET st == on_epoch_end([cb |-> cp_callback, files |-> files, ckptState |-> ckptState,
                               writes |-> writes, log |-> log],
                              epoch + 1, evaluate(model), model)
       IN  /\ cp_callback' = st.cb
           /\ files' = st.files
           /\ ckptState' = st.ckptState
           /\ writes' = st.writes
           /\ log' = st.log
    /\ epoch' = epoch + 1
    /\ pc' = at
    /\ UNCHANGED <<model, new_model, seed, latest, loss, optimizerArg>>

\* One epoch of model.fit(train_images, train_labels, epochs=5): no callback.
FitEpoch(at, epochs) ==
    /\ pc = at
    /\ epoch < epochs
    /\ model' = TrainEpoch(model, seed)
    /\ epoch' = epoch + 1
    /\ UNCHANGED <<pc, new_model, files, ckptState, cp_callback, seed, latest, loss,
                   log, writes, optimizerArg>>

\* model.fit returns.
FitEnd(at, epochs, to) ==
    /\ pc = at
    /\ epoch = epochs
    /\ pc' = to
    /\ UNCHANGED <<model, new_model, files, ckptState, cp_callback, epoch, seed,
                   latest, loss, log, writes, optimizerArg>>

\* model.save('my_model.h5')
SaveModel(at, to) ==
    /\ pc = at
    /\ files' = WriteFile(files, h5_path, ArchiveOf(model))
    /\ pc' = to
    /\ UNCHANGED <<model, new_model, ckptState, cp_callback, epoch, seed, latest,
                   loss, log, writes, optimizerArg>>

\* new_model = tf.keras.models.load_model('my_model.h5')
LoadModel(at, to) ==
    /\ pc = at
    /\ IF h5_path \in DOMAIN files
       THEN /\ new_model' = load_model(files, h5_path)
            /\ pc' = to
       ELSE /\ new_model' = new_model
            /\ pc' = "raised"
    /\ UNCHANGED <<model, files, ckptState, cp_callback, epoch, seed, latest, loss,
                   log, writes, optimizerArg>>

\* loss, acc = new_model.evaluate(test_images, test_labels)
EvaluateNew(at, to) ==
    /\ pc = at
    /\ loss' = evaluate(new_model)
    /\ pc' = to
    /\ UNCHANGED <<model, new_model, files, ckptState, cp_callback, epoch, seed,
                   latest, log, writes, optimizerArg>>

\* ------------------------------------------------------------- the cells
\* In [5], In [6]: training_1
Cell5 == NewCallback("c5", "c6", ModelCheckpoint1)
Cell6Begin == FitBegin("c6", "c6_fit")
Cell6Train == FitTrain("c6_fit", "c6_cb", Epochs1)
Cell6EpochEnd == FitCallback("c6_cb", "c6_fit")
Cell6End == FitEnd("c6_fit", Epochs1, "c8")
\* In [8], In [9]: a fresh model, restored from the training_1 checkpoint
Cell8Create == CreateModel("c8", "c8_eval")
Cell8Evaluate == Evaluate("c8_eval", "c9")
Cell9Load == LoadWeights("c9", "c9_eval", ckpt_path_for_t1)
Cell9Evaluate == Evaluate("c9_eval", "c10")
\* In [10]: training_2
Cell10Callback == NewCallback("c10", "c10_create", ModelCheckpoint2)
Cell10Create == CreateModel("c10_create", "c10_save")
Cell10Save == SaveWeights("c10_save", "c10_begin", ckpt_path_for_t2(0))
Cell10Begin == FitBegin("c10_begin", "c10_fit")
Cell10Train == FitTrain("c10_fit", "c10_cb", Epochs2)
Cell10EpochEnd == FitCallback("c10_cb", "c10_fit")
Cell10End == FitEnd("c10_fit", Epochs2, "c12")
\* In [12], In [13]: the latest checkpoint of training_2
Cell12Latest == LatestCheckpoint("c12", "c13", ckpt_dir_for_t2)
Cell13Create == CreateModel("c13", "c13_load")
Cell13Load == LoadWeights("c13_load", "c13_eval", latest)
Cell13Evaluate == Evaluate("c13_eval", "c14")
\* In [14]: manual save_weights / load_weights
Cell14Save == SaveWeights("c14", "c14_create", manual_path)
Cell14Create == CreateModel("c14_create", "c14_load")
Cell14Load == LoadWeights("c14_load", "c14_eval", manual_path)
Cell14Evaluate == Evaluate("c14_eval", "c52")
\* In [52], In [53] and the last cell: the HDF5 archive
Cell52Create == CreateModel("c52", "c52_begin")
Cell52Begin == FitBegin("c52_begin", "c52_fit")
Cell52Epoch == FitEpoch("c52_fit", Epochs3)
Cell52End == FitEnd("c52_fit", Epochs3, "c52_save")
Cell52Save == SaveModel("c52_save", "c53")
Cell53Load == LoadModel("c53", "c54")
Cell54Evaluate == EvaluateNew("c54", "done")

Next ==
    \/ Cell5 \/ Cell6Begin \/ Cell6Train \/ Cell6EpochEnd \/ Cell6End
    \/ Cell8Create \/ Cell8Evaluate \/ Cell9Load \/ Cell9Evaluate
    \/ Cell10Callback \/ Cell10Create \/ Cell10Save \/ Cell10Begin
    \/ Cell10Train \/ Cell10EpochEnd \/ Cell10End
    \/ Cell12Latest \/ Cell13Create \/ Cell13Load \/ Cell13Evaluate
    \/ Cell14Save \/ Cell14Create \/ Cell14Load \/ Cell14Evaluate
    \/ Cell52Create \/ Cell52Begin \/ Cell52Epoch \/ Cell52End \/ Cell52Save
    \/ Cell53Load \/ Cell54Evaluate

Spec == Init /\ [][Next]_vars

\* The notebook with either kind of optimizer given to compile().
SpecOpt == InitOpt /\ [][Next]_vars

\* ----------------------------------------------------------------- claims
\* The ModelState written last under path p.
RECURSIVE LastWrittenFrom(_, _)
LastWrittenFrom(p, i) ==
    IF i = 0 THEN Unset
    ELSE IF writes[i].path = p THEN writes[i].weights
    ELSE LastWrittenFrom(p, i - 1)
LastWritten(p) == LastWrittenFrom(p, Len(writes))

\* A step of training_1's fit that ends an epoch.
EpochEnd1 == pc = "c6_cb" /\ epoch' = epoch + 1

\* C1: at the end of every epoch of training_1 the checkpoint is written if
\* and only if the epoch's val_loss is strictly lower than the best recorded
\* so far; an equal or higher val_loss writes nothing and leaves the stored
\* checkpoint and the recorded best as they were.
C1_WriteIffStrictlyBetter ==
    [][EpochEnd1 =>
         IF evaluate(model') < cp_callback.best
         THEN /\ writes' = Append(writes, WriteEvent(ckpt_path_for_t1, epoch', model'))
              /\ ckpt_path_for_t1 \in DOMAIN files'
              /\ files'[ckpt_path_for_t1].weights = model'.weights
              /\ cp_callback'.best = evaluate(model')
         ELSE /\ writes' = writes
              /\ files' = files
              /\ cp_callback'.best = cp_callback.best]_vars

\* The metrics 0.70 0.52 0.46 0.43 0.42 0.43: the first five epochs wrote, the
\* sixth did not.
C1_Witness ==
    /\ pc = "c6_fit" /\ epoch = 6
    /\ Len(writes) = 5
    /\ \A i \in 1 .. 5 : /\ writes[i].epoch = i
                         /\ Loss(writes[i].weights) = <<70, 52, 46, 43, 42>>[i]
    /\ log = [epoch |-> 6, msg |-> "did not improve", from |-> 42, to |-> 43]
    /\ files[ckpt_path_for_t1].weights = writes[5].weights

LoadStep == pc \in {"c9", "c13_load", "c14_load"} /\ pc' \notin {pc, "raised"}

RestoredPath ==
    CASE pc \in {"c9_eval", "c10"} -> ckpt_path_for_t1
      [] pc \in {"c13_eval", "c14"} -> latest
      [] pc \in {"c14_eval", "c52"} -> manual_path
      [] OTHER -> NoPath

C10_UpdatedEveryEpoch ==
    (pc = "c6_fit" /\ epoch >= 1) =>
        /\ Len(writes) = epoch
        /\ writes[epoch].epoch = epoch
        /\ files[ckpt_path_for_t1].weights = model.weights

\* Inside one of the three fit() calls.
InFit == pc \in {"c6_fit", "c6_cb", "c10_fit", "c10_cb", "c52_fit"}

\* Every weights-only checkpoint on disk holds what the last write under its
\* path put there: no write is pending.
WritesComplete ==
    \A p \in DOMAIN files :
        files[p].format = "ckpt" => files[p].weights = LastWritten(p)

\* C11: during fit a checkpoint is written only by the callback at the end of
\* an epoch, one checkpoint per callback point, of the ModelState the epoch
\* ended with and without changing it; a training step writes nothing and
\* starts only when every earlier write is complete on disk.
C11_WritesAtCallbackPoints ==
    [][InFit =>
         /\ (writes' # writes \/ files' # files \/ ckptState' # ckptState) =>
               /\ pc \in {"c6_cb", "c10_cb"}
               /\ model' = model
               /\ epoch' = epoch + 1
               /\ writes' = Append(writes, WriteEvent(get_file_path(cp_callback, epoch'), epoch', model))
               /\ writes'[Len(writes')].path \in DOMAIN files'
               /\ files'[writes'[Len(writes')].path] = CkptOf(model)
               /\ \A p \in DOMAIN files : p # writes'[Len(writes')].path => files'[p] = files[p]
         /\ model' # model =>
               /\ pc \in {"c6_fit", "c10_fit", "c52_fit"}
               /\ writes' = writes /\ files' = files /\ ckptState' = ckptState
               /\ WritesComplete]_vars

\* training_2 has just written the checkpoint of epoch 5 and is about to train
\* epoch 6.
C11_Witness ==
    /\ pc = "c10_fit" /\ epoch = Period2
    /\ Len(writes) >= 1
    /\ writes[Len(writes)] = WriteEvent(ckpt_path_for_t2(Period2), Period2, model)
    /\ files[ckpt_path_for_t2(Period2)] = CkptOf(model)
    /\ WritesComplete

\* The checkpoints under checkpoints/training_2.
CheckpointSet2 == {p \in DOMAIN files : p.dir = ckpt_dir_for_t2}

\* The epochs up to e that training_2 checkpoints: 0 (the manual save_weights)
\* and the multiples of the period.
SavedEpochs2(e) == {k \in 0 .. e : k % Period2 = 0}

\* The write events under checkpoints/training_2, in order.
Writes2 == SelectSeq(writes, LAMBDA w : w.path.dir = ckpt_dir_for_t2)

\* The ModelState training_2 had after epoch e: the weights saved before the
\* fit, trained e epochs with the run's seed.
RECURSIVE StateAtEpoch2(_)
StateAtEpoch2(e) ==
    IF e = 0 THEN files[ckpt_path_for_t2(0)].weights
    ELSE (StateAtEpoch2(e - 1) + seed) % (MaxW + 1)

\* C12: while training_2 runs and when it has ended, after epoch e the
\* directory holds exactly the checkpoints of epoch 0 and of the multiples of
\* 5 up to e, each under its own path, each written once (never overwritten)
\* and each holding the ModelState of its own epoch; after the 50 epochs these
\* are the 11 checkpoints of epochs 0, 5, ..., 50.
C12_PeriodicCheckpoints ==
    pc \in {"c10_fit", "c10_cb", "c12"} =>
        /\ CheckpointSet2 = {ckpt_path_for_t2(k) : k \in SavedEpochs2(epoch)}
        /\ Len(Writes2) = Cardinality(SavedEpochs2(epoch))
        /\ \A i \in 1 .. Len(Writes2) :
               /\ Writes2[i].epoch = (i - 1) * Period2
               /\ Writes2[i].path = ckpt_path_for_t2(Writes2[i].epoch)
        /\ \A k \in SavedEpochs2(epoch) :
               files[ckpt_path_for_t2(k)] =
                   [format |-> "ckpt", config |-> NoConfig,
                    weights |-> StateAtEpoch2(k), optimizer |-> NoOptimizer]
        /\ pc = "c12" => epoch = Epochs2 /\ Cardinality(CheckpointSet2) = 11

\* training_2 has ended with 11 checkpoints, those of epochs 45 and 50 holding
\* different ModelStates.
C12_Witness ==
    /\ pc = "c12"
    /\ Cardinality(CheckpointSet2) = 11
    /\ Len(Writes2) = 11
    /\ files[ckpt_path_for_t2(45)].weights # files[ckpt_path_for_t2(50)].weights
    /\ files[ckpt_path_for_t2(50)].weights = model.weights

\* The path of the last write under directory d (NoPath: none yet).
RECURSIVE LastPathFrom(_, _)
LastPathFrom(d, i) ==
    IF i = 0 THEN NoPath
    ELSE IF writes[i].path.dir = d THEN writes[i].path
    ELSE LastPathFrom(d, i - 1)
LastPathIn(d) == LastPathFrom(d, Len(writes))

\* The statements after In [12].
AfterLatest ==
    pc \in {"c13", "c13_load", "c13_eval", "c14", "c14_create", "c14_load",
            "c14_eval", "c52", "c52_begin", "c52_fit", "c52_save", "c53", "c54", "done"}

StateAtEpoch1(i) == (model.weights + (epoch - i) * (MaxW + 1 - seed)) % (MaxW + 1)

\* The lowest val_loss of epochs 1..epoch, and the first epoch that had it.
MinLoss1 ==
    CHOOSE v \in {Loss(StateAtEpoch1(i)) : i \in 1 .. epoch} :
        \A i \in 1 .. epoch : v <= Loss(StateAtEpoch1(i))
BestEpoch1 ==
    CHOOSE i \in 1 .. epoch :
        /\ Loss(StateAtEpoch1(i)) = MinLoss1
        /\ \A j \in 1 .. (i - 1) : Loss(StateAtEpoch1(j)) > MinLoss1

\* C14: at the end of every epoch of training_1, and when fit has returned,
\* cp.ckpt holds the ModelState of the first epoch that reached the lowest
\* val_loss so far, written at that epoch, and the recorded best is that lowest
\* val_loss; the recorded best never goes up; the model restored from cp.ckpt
\* in In [9] has those weights and evaluates to that loss.
C14_BestCheckpoint ==
    /\ []((pc \in {"c6_fit", "c8"} /\ epoch >= 1) =>
            /\ files[ckpt_path_for_t1] = CkptOf([weights |-> StateAtEpoch1(BestEpoch1)])
            /\ cp_callback.best = MinLoss1
            /\ writes[Len(writes)] =
                   [path |-> ckpt_path_for_t1, epoch |-> BestEpoch1,
                    weights |-> StateAtEpoch1(BestEpoch1)])
    /\ [](pc = "c9_eval" => model.weights = writes[Len(writes)].weights)
    /\ [](pc = "c10" => /\ loss = cp_callback.best
                        /\ loss = Loss(writes[Len(writes)].weights))
    /\ [][(pc \in {"c6_fit", "c6_cb"}) => (cp_callback'.best <= cp_callback.best)]_vars

\* The notebook's run: the best epoch is 5 of 10 with loss 0.42, the model in
\* memory after epoch 10 was a different one, and the restored model
\* evaluates to 0.42.
C14_Witness ==
    /\ pc = "c10"
    /\ epoch = Epochs1
    /\ Len(writes) = 5
    /\ writes[5].epoch = 5
    /\ loss = 42
    /\ model.weights = files[ckpt_path_for_t1].weights
    /\ (model.weights + 5 * seed) % (MaxW + 1) # model.weights

====
